---------------------------- MODULE Spec2Model ----------------------------
(***************************************************************************)
(* A model of three parts of gomacro:                                      *)
(*   - jit.Code, the soft-register instruction buffer (code.go),           *)
(*   - xreflect function/method types and their accessors (type.go),       *)
(*   - fast.Comp.placeSetConst / placeSetExpr, the threaded-code           *)
(*     assignment statements (place_set.go).                               *)
(* Each part has its own specification (SpecJit, SpecType, SpecPlace);     *)
(* the variables of the other parts stay at their initial values.          *)
(***************************************************************************)
EXTENDS Integers, Sequences, FiniteSets, TLC

VARIABLES
    code,      \* jit: the Code buffer, a sequence of AsmCode tokens
    jitOut,    \* jit: the last call on the buffer and how it ended
    targs,     \* xreflect: the arguments (recv, in, out, variadic) given to MethodOf/FuncOf
    typeOut,   \* xreflect: the last call (constructor or accessor) and its outcome
    pargs,     \* fast: the arguments (place, constant, expression) given to the compiler
    comp,      \* fast: c.Code, the statements compiled so far
    compOut,   \* fast: the last compile call and how it ended
    env,       \* fast: the Environment the compiled code runs against
    next,      \* fast: what the last executed Statement returned
    execOut    \* fast: the last executed Statement and what it observed

jitVars   == <<code, jitOut>>
typeVars  == <<targs, typeOut>>
placeVars == <<pargs, comp, compOut, env, next, execOut>>
vars      == <<code, jitOut, targs, typeOut, pargs, comp, compOut, env, next, execOut>>

(***************************************************************************)
(* Bounds of the model.                                                    *)
(***************************************************************************)
MaxCode == 6        \* tokens a Code buffer may hold
MaxArgs == 2        \* parameters (and results) of a function type built by MethodOf
MaxStmts == 2       \* statements compiled into one code buffer

(***************************************************************************)
(* jit: Code buffer (src/unnamed/part_001, code.go)                        *)
(***************************************************************************)

\* A token or operand: tag says what it is, id its number, name its symbol.
Tok(tag, id, name) == [tag |-> tag, id |-> id, name |-> name]

NOP    == "NOP"
ASSIGN == "ASSIGN"
Op1s   == {"NEG"}
Op2s   == {"ADD"}
Inst1s == {NOP, "INC"}
Inst2s == {ASSIGN, "XOR"}
MiscOps == {"ALLOC", "FREE"}
Kinds  == {"Int64", "Float64"}

\* SoftReg{id, kind}
SoftRegs == {Tok("softreg", 1, "Int64"), Tok("softreg", 0, "Float64")}
\* Expr values that are already AsmCode: an immediate and a bare soft register id
AsmCodes == {Tok("imm", 1, ""), Tok("regid", 1, "")}
\* *Expr1, *Expr2 and an Expr of some other type
Unlowered == {Tok("expr1", 0, "NEG"), Tok("expr2", 0, "ADD")}
Unknown   == {Tok("const", 0, "")}
Exprs     == AsmCodes \cup SoftRegs \cup Unlowered \cup Unknown

\* op.Asm() / inst.Asm(): the operation's token
Asm(class, op) == Tok(class, 0, op)
\* dst.id
RegId(r) == Tok("regid", r.id, "")

\* errorf: raises; the call that made it does not return
errorf(msg) == [ok |-> FALSE, tok |-> Tok("nil", 0, ""), err |-> msg]

asmArg(e) ==
    CASE e.tag \in {"imm", "regid", "op1", "op2", "inst1", "inst2", "misc", "kind"} ->
            [ok |-> TRUE, tok |-> e, err |-> ""]
      [] e.tag = "softreg" -> [ok |-> TRUE, tok |-> RegId(e), err |-> ""]
      [] e.tag \in {"expr1", "expr2"} ->
            errorf("internal error: cannot assemble, must be compiled first")
      [] OTHER -> errorf("unknown Expr type")

\* The result of a call on buffer c: the new buffer, or the error raised
Ret(c)      == [code |-> c, err |-> ""]
Raised(c, a) == [code |-> c, err |-> a.err]

\* Mutant of Op1: the new tokens are put in front of the ones already emitted
Op1_Prepend(c, op, src, dst) ==
    LET a == asmArg(src) IN
    IF ~a.ok THEN Raised(c, a)
    ELSE Ret(<<Asm("op1", op), a.tok, RegId(dst)>> \o c)

Op1(c, op, src, dst) ==
    LET a == asmArg(src) IN
    IF ~a.ok THEN Raised(c, a)
    ELSE Ret(c \o <<Asm("op1", op), a.tok, RegId(dst)>>)

\* Mutant of Op2: the tokens built before the failing operand are appended
Op2_Partial(c, op, a, b, dst) ==
    LET aa == asmArg(a)
        ab == asmArg(b) IN
    IF ~aa.ok THEN Raised(c \o <<Asm("op2", op)>>, aa)
    ELSE IF ~ab.ok THEN Raised(c \o <<Asm("op2", op), aa.tok>>, ab)
    ELSE Ret(c \o <<Asm("op2", op), aa.tok, ab.tok, RegId(dst)>>)

Op2(c, op, a, b, dst) ==
    LET aa == asmArg(a)
        ab == asmArg(b) IN
    IF ~aa.ok THEN Raised(c, aa)
    ELSE IF ~ab.ok THEN Raised(c, ab)
    ELSE Ret(c \o <<Asm("op2", op), aa.tok, ab.tok, RegId(dst)>>)

Inst1(c, inst, dst) ==
    IF inst # NOP
    THEN LET a == asmArg(dst) IN
         IF ~a.ok THEN Raised(c, a) ELSE Ret(c \o <<Asm("inst1", inst), a.tok>>)
    ELSE Ret(c)

\* Mutant of Inst2: the operands are compared before they are encoded
Inst2_RawCompare(c, inst, src, dst) ==
    LET asrc == asmArg(src)
        adst == asmArg(dst) IN
    IF ~asrc.ok THEN Raised(c, asrc)
    ELSE IF ~adst.ok THEN Raised(c, adst)
    ELSE IF inst # ASSIGN \/ src # dst
         THEN Ret(c \o <<Asm("inst2", inst), asrc.tok, adst.tok>>)
         ELSE Ret(c)

Inst2(c, inst, src, dst) ==
    LET asrc == asmArg(src)
        adst == asmArg(dst) IN
    IF ~asrc.ok THEN Raised(c, asrc)
    ELSE IF ~adst.ok THEN Raised(c, adst)
    ELSE IF inst # ASSIGN \/ asrc.tok # adst.tok
         THEN Ret(c \o <<Asm("inst2", inst), asrc.tok, adst.tok>>)
         ELSE Ret(c)

SoftReg(c, op, id, kind) ==
    Ret(c \o <<Asm("misc", op), Tok("regid", id, ""), Tok("kind", 0, kind)>>)

\* What the model remembers of a call: which one, its operation, the error it
\* raised (if any), whether every Expr operand was a raw token or a soft register,
\* and (two operands) whether both were and named the same operand.
IsLowered(e) == e \in AsmCodes \cup SoftRegs
Operand(e)   == IF e \in SoftRegs THEN Tok("regid", e.id, "") ELSE e
SameOperand(a, b) == IsLowered(a) /\ IsLowered(b) /\ Operand(a) = Operand(b)

JitCall(call, op, lowered, same, r) ==
    /\ Len(r.code) <= MaxCode
    /\ code' = r.code
    /\ jitOut' = [call |-> call, op |-> op, lowered |-> lowered, same |-> same, err |-> r.err]

CodeInit ==
    /\ code' = <<>>
    /\ jitOut' = [call |-> "Init", op |-> "", lowered |-> TRUE, same |-> FALSE, err |-> ""]
    /\ UNCHANGED <<typeVars, placeVars>>

CallOp1 ==
    /\ \E op \in Op1s, src \in Exprs, dst \in SoftRegs :
          JitCall("Op1", op, IsLowered(src), FALSE, Op1(code, op, src, dst))
    /\ UNCHANGED <<typeVars, placeVars>>

CallOp2 ==
    /\ \E op \in Op2s, a \in Exprs, b \in Exprs, dst \in SoftRegs :
          JitCall("Op2", op, IsLowered(a) /\ IsLowered(b), SameOperand(a, b),
                  Op2(code, op, a, b, dst))
    /\ UNCHANGED <<typeVars, placeVars>>

CallInst1 ==
    /\ \E inst \in Inst1s, dst \in Exprs :
          JitCall("Inst1", inst, IsLowered(dst), FALSE, Inst1(code, inst, dst))
    /\ UNCHANGED <<typeVars, placeVars>>

CallInst2 ==
    /\ \E inst \in Inst2s, src \in Exprs, dst \in Exprs :
          JitCall("Inst2", inst, IsLowered(src) /\ IsLowered(dst), SameOperand(src, dst),
                  Inst2(code, inst, src, dst))
    /\ UNCHANGED <<typeVars, placeVars>>

CallSoftReg ==
    /\ \E op \in MiscOps, r \in SoftRegs, kind \in Kinds :
          JitCall("SoftReg", op, TRUE, FALSE, SoftReg(code, op, r.id, kind))
    /\ UNCHANGED <<typeVars, placeVars>>

JitInit ==
    /\ code = <<>>
    /\ jitOut = [call |-> "Init", op |-> "", lowered |-> TRUE, same |-> FALSE, err |-> ""]

TypeIdle ==
    /\ targs = 0
    /\ typeOut = 0

PlaceIdle ==
    /\ pargs = 0
    /\ comp = <<>>
    /\ compOut = 0
    /\ env = 0
    /\ next = 0
    /\ execOut = 0

InitJit == JitInit /\ TypeIdle /\ PlaceIdle

NextJit == CodeInit \/ CallOp1 \/ CallOp2 \/ CallInst1 \/ CallInst2 \/ CallSoftReg

SpecJit == InitJit /\ [][NextJit]_vars

(***************************************************************************)
(* xreflect: function types (src/unnamed/part_001, type.go)                *)
(***************************************************************************)

\* go/types side: a basic type, a named type over an underlying one, a signature.
\* under and recv hold zero or one type; params and results are tuples.
GBasic(name) ==
    [form |-> "basic", name |-> name, under |-> <<>>, recv |-> <<>>,
     params |-> <<>>, results |-> <<>>, variadic |-> FALSE]
GNamed(name, u) ==
    [form |-> "named", name |-> name, under |-> <<u>>, recv |-> <<>>,
     params |-> <<>>, results |-> <<>>, variadic |-> FALSE]
\* types.NewSignature(recv, params, results, variadic)
NewSignature(grecv, gin, gout, variadic) ==
    [form |-> "sig", name |-> "", under |-> <<>>, recv |-> grecv,
     params |-> gin, results |-> gout, variadic |-> variadic]
\* types.Type.Underlying()
Underlying(g) == IF g.form = "named" THEN g.under[1] ELSE g

\* reflect side: kind, name, and for a function its parameter and result lists
RBasic(kind, name) ==
    [kind |-> kind, name |-> name, in |-> <<>>, out |-> <<>>, variadic |-> FALSE]
\* reflect.FuncOf(in, out, variadic)
ReflectFuncOf(rin, rout, variadic) ==
    [kind |-> "Func", name |-> "", in |-> rin, out |-> rout, variadic |-> variadic]

\* The universes: the package's default one and three others
DefaultUniverse == "universe"
Universes == {DefaultUniverse, "U1", "U2", "U3"}

\* Universe.MakeType(gtype, rtype): the xtype pairing a static and a runtime type
MakeType(v, gtype, rtype) ==
    [kind |-> IF Underlying(gtype).form = "sig" THEN "Func" ELSE rtype.kind,
     gtype |-> gtype, rtype |-> rtype, universe |-> v]

\* a nil Type
NilType == [kind |-> "Invalid", gtype |-> GBasic("nil"), rtype |-> RBasic("Invalid", "nil"),
            universe |-> ""]

IntType(v)   == MakeType(v, GBasic("int"), RBasic("Int", "int"))
BoolType(v)  == MakeType(v, GBasic("bool"), RBasic("Bool", "bool"))
SliceType(v) == MakeType(v, GBasic("[]int"), RBasic("Slice", "[]int"))
\* type T struct{}
RecvType(v)  == MakeType(v, GNamed("T", GBasic("struct{}")), RBasic("Struct", "T"))
\* type F func(int) bool: a named type whose underlying type is a signature
NamedFunc(v) ==
    MakeType(v, GNamed("F", NewSignature(<<>>, <<GBasic("int")>>, <<GBasic("bool")>>, FALSE)),
             [kind |-> "Func", name |-> "F", in |-> <<RBasic("Int", "int")>>,
              out |-> <<RBasic("Bool", "bool")>>, variadic |-> FALSE])

\* t.Kind(), t.underlying()
Kind(t)       == t.kind
underlying(t) == Underlying(t.gtype)

\* The outcome of a call: err = "" when it returned, and then t, n or b is the result
Returned(t, n, b) == [err |-> "", t |-> t, n |-> n, b |-> b]
ReturnT(t) == Returned(t, 0, FALSE)
ReturnN(n) == Returned(NilType, n, FALSE)
ReturnB(b) == Returned(NilType, 0, b)
Panic(msg) == [err |-> msg, t |-> NilType, n |-> 0, b |-> FALSE]
\* xerrorf: raises the usage error
xerrorf(msg) == Panic(msg)

IsMethod(t) ==
    IF Kind(t) # "Func" THEN xerrorf("IsMethod of non-func type")
    ELSE IF t.gtype.form # "sig"
         THEN Panic("interface conversion: types.Type is not *types.Signature")
         ELSE ReturnB(t.gtype.recv # <<>>)

IsVariadic(t) ==
    IF Kind(t) # "Func" THEN xerrorf("In of non-func type")
    ELSE ReturnB(t.rtype.variadic)

\* Mutant of In: the receiver is not skipped in the runtime parameter list
In_NoShift(t, i) ==
    IF Kind(t) # "Func" THEN xerrorf("In of non-func type")
    ELSE LET gtype == underlying(t) IN
         IF i + 1 > Len(gtype.params) THEN Panic("index out of range")
         ELSE IF i + 1 > Len(t.rtype.in) THEN Panic("reflect: Func index out of bounds")
              ELSE ReturnT(MakeType(t.universe, gtype.params[i + 1], t.rtype.in[i + 1]))

In(t, i) ==
    IF Kind(t) # "Func" THEN xerrorf("In of non-func type")
    ELSE LET gtype == underlying(t) IN
         IF i + 1 > Len(gtype.params) THEN Panic("index out of range")
         ELSE LET va == gtype.params[i + 1]
                  j  == IF gtype.recv # <<>> THEN i + 1 ELSE i
              IN  IF j + 1 > Len(t.rtype.in) THEN Panic("reflect: Func index out of bounds")
                  ELSE ReturnT(MakeType(t.universe, va, t.rtype.in[j + 1]))

\* Mutant of NumIn: the runtime parameters are counted, receiver included
NumIn_Runtime(t) ==
    IF Kind(t) # "Func" THEN xerrorf("NumIn of non-func type")
    ELSE ReturnN(Len(t.rtype.in))

NumIn(t) ==
    IF Kind(t) # "Func" THEN xerrorf("NumIn of non-func type")
    ELSE ReturnN(Len(underlying(t).params))

NumOut(t) ==
    IF Kind(t) # "Func" THEN xerrorf("NumOut of non-func type")
    ELSE ReturnN(Len(underlying(t).results))

Out(t, i) ==
    IF Kind(t) # "Func" THEN xerrorf("Out of non-func type")
    ELSE LET gtype == underlying(t) IN
         IF i + 1 > Len(gtype.results) THEN Panic("index out of range")
         ELSE IF i + 1 > Len(t.rtype.out) THEN Panic("reflect: Func index out of bounds")
              ELSE ReturnT(MakeType(t.universe, gtype.results[i + 1], t.rtype.out[i + 1]))

Recv(t) ==
    IF Kind(t) # "Func" THEN xerrorf("Recv of non-func type")
    ELSE LET va == underlying(t).recv IN
         IF va = <<>> THEN ReturnT(NilType)
         ELSE IF Len(t.rtype.in) = 0 THEN Panic("reflect: Func index out of bounds")
              ELSE ReturnT(MakeType(t.universe, va[1], t.rtype.in[1]))

\* toGoTuple, toReflectTypes, toGoParam: the static, resp. runtime, side of each type
toGoTuple(ts)      == [i \in 1..Len(ts) |-> ts[i].gtype]
toReflectTypes(ts) == [i \in 1..Len(ts) |-> ts[i].rtype]
toGoParam(t)       == <<t.gtype>>

\* A nil element has no GoType()/ReflectType() to call
HasNil(ts) == \E i \in 1..Len(ts) : ts[i] = NilType
\* reflect.FuncOf and types.NewSignature refuse a variadic function whose last
\* parameter is not a slice
BadVariadic(rin, variadic) ==
    variadic /\ (Len(rin) = 0 \/ rin[Len(rin)].kind # "Slice")

UniverseMethodOf(v, recv, in, out, variadic) ==
    IF HasNil(in) \/ HasNil(out) THEN Panic("nil pointer dereference")
    ELSE LET gin   == toGoTuple(in)
             gout  == toGoTuple(out)
             rin0  == toReflectTypes(in)
             rout  == toReflectTypes(out)
             rin   == IF recv # NilType THEN <<recv.rtype>> \o rin0 ELSE rin0
             grecv == IF recv # NilType THEN toGoParam(recv) ELSE <<>>
             gtype == NewSignature(grecv, gin, gout, variadic)
         IN  IF BadVariadic(rin, variadic)
             THEN Panic("last arg of variadic func must be slice")
             ELSE ReturnT(MakeType(v, gtype, ReflectFuncOf(rin, rout, variadic)))

UniverseFuncOf(v, in, out, variadic) == UniverseMethodOf(v, NilType, in, out, variadic)

\* Mutant of SelectUniverse: an output's universe is preferred to an input's
SelectUniverse_OutFirst(recv, in, out) ==
    IF recv # NilType THEN recv.universe
    ELSE IF Len(out) # 0 /\ out[1] # NilType THEN out[1].universe
    ELSE IF Len(in) # 0 /\ in[1] # NilType THEN in[1].universe
    ELSE DefaultUniverse

\* The universe the package-level MethodOf builds the type in
SelectUniverse(recv, in, out) ==
    IF recv # NilType THEN recv.universe
    ELSE IF Len(in) # 0 /\ in[1] # NilType THEN in[1].universe
    ELSE IF Len(out) # 0 /\ out[1] # NilType THEN out[1].universe
    ELSE DefaultUniverse

MethodOf(recv, in, out, variadic) ==
    UniverseMethodOf(SelectUniverse(recv, in, out), recv, in, out, variadic)

FuncOf(in, out, variadic) == MethodOf(NilType, in, out, variadic)

\* The types the model passes to MethodOf and FuncOf
SeqsUpTo(S, n) == UNION {[1..k -> S] : k \in 0..n}
RecvTypes == {NilType, RecvType("U2")}
InTypes   == {IntType("U1"), SliceType("U1"), NilType}
OutTypes  == {BoolType("U3"), NilType}
\* The types the accessors are called on besides the built one
KnownTypes == {IntType("U1"), NamedFunc("U1")}

\* A call and its outcome: the type an accessor was called on and its index, or the
\* receiver a constructor was given and the universe it built in; r is the outcome
Call(call, on, i, recv, v, r) ==
    /\ typeOut' = [call |-> call, on |-> on, i |-> i, recv |-> recv, universe |-> v, r |-> r]
    /\ UNCHANGED <<targs, jitVars, placeVars>>

Construct(call, v, recv, r) == Call(call, NilType, 0, recv, v, r)

CallMethodOf ==
    Construct("MethodOf", SelectUniverse(targs.recv, targs.in, targs.out), targs.recv,
              MethodOf(targs.recv, targs.in, targs.out, targs.variadic))

CallFuncOf ==
    Construct("FuncOf", SelectUniverse(NilType, targs.in, targs.out), NilType,
              FuncOf(targs.in, targs.out, targs.variadic))

CallUniverseMethodOf ==
    \E v \in {DefaultUniverse, "U1"} :
        Construct("Universe.MethodOf", v, targs.recv,
                  UniverseMethodOf(v, targs.recv, targs.in, targs.out, targs.variadic))

CallUniverseFuncOf ==
    \E v \in {DefaultUniverse, "U1"} :
        Construct("Universe.FuncOf", v, NilType,
                  UniverseFuncOf(v, targs.in, targs.out, targs.variadic))

\* The types an accessor is called on: the known ones and those MethodOf and FuncOf
\* build from the arguments
BuiltTypes ==
    {r.t : r \in {x \in {MethodOf(targs.recv, targs.in, targs.out, targs.variadic),
                         FuncOf(targs.in, targs.out, targs.variadic)} : x.err = ""}}
Subjects == KnownTypes \cup BuiltTypes

Access(call, t, i, r) == Call(call, t, i, NilType, "", r)

CallIn         == \E t \in Subjects, i \in 0..MaxArgs : Access("In", t, i, In(t, i))
CallOut        == \E t \in Subjects, i \in 0..MaxArgs : Access("Out", t, i, Out(t, i))
CallNumIn      == \E t \in Subjects : Access("NumIn", t, 0, NumIn(t))
CallNumOut     == \E t \in Subjects : Access("NumOut", t, 0, NumOut(t))
CallRecv       == \E t \in Subjects : Access("Recv", t, 0, Recv(t))
CallIsVariadic == \E t \in Subjects : Access("IsVariadic", t, 0, IsVariadic(t))
CallIsMethod   == \E t \in Subjects : Access("IsMethod", t, 0, IsMethod(t))

Accessors    == {"In", "Out", "NumIn", "NumOut", "Recv", "IsVariadic", "IsMethod"}
Constructors == {"MethodOf", "FuncOf", "Universe.MethodOf", "Universe.FuncOf"}

TypeInit ==
    /\ targs \in [recv : RecvTypes, in : SeqsUpTo(InTypes, MaxArgs),
                  out : SeqsUpTo(OutTypes, MaxArgs), variadic : BOOLEAN]
    /\ typeOut = [call |-> "", on |-> NilType, i |-> 0, recv |-> NilType, universe |-> "",
                  r |-> Panic("none")]

JitIdle ==
    /\ code = <<>>
    /\ jitOut = 0

InitType == TypeInit /\ JitIdle /\ PlaceIdle

NextType ==
    \/ CallMethodOf \/ CallFuncOf \/ CallUniverseMethodOf \/ CallUniverseFuncOf
    \/ CallIn \/ CallOut \/ CallNumIn \/ CallNumOut \/ CallRecv
    \/ CallIsVariadic \/ CallIsMethod

SpecType == InitType /\ [][NextType]_vars

(***************************************************************************)
(* fast: reflect values (src/base/dep/api.go, place_set.go)                *)
(***************************************************************************)

\* A reflect.Value: its kind, for an interface the kind of the value it holds, and
\* the payload. n holds an integer, or a float (or a complex number's real part)
\* counted in halves; im a complex number's imaginary part in halves.
Value(k, dyn, b, n, im, str) ==
    [k |-> k, dyn |-> dyn, b |-> b, n |-> n, im |-> im, s |-> str]

\* base.Nil and base.None
Nil  == Value("Invalid", "", FALSE, 0, 0, "")
None == Value("None", "", FALSE, 0, 0, "")

IntKinds     == {"Int", "Int8", "Int16", "Int32", "Int64"}
UintKinds    == {"Uint", "Uint8", "Uint16", "Uint32", "Uint64", "Uintptr"}
FloatKinds   == {"Float32", "Float64"}
ComplexKinds == {"Complex64", "Complex128"}
OtherKinds   == {"Interface", "Struct"}
RKinds == {"Bool", "String"} \cup IntKinds \cup UintKinds \cup FloatKinds
            \cup ComplexKinds \cup OtherKinds

\* r.Zero(t)
Zero(k) == Value(k, "", FALSE, 0, 0, "")

\* An integer as the kind holds it: the narrow kinds wrap around
Wrap(k, n) ==
    CASE k = "Int8"   -> ((n + 128) % 256) - 128
      [] k = "Int16"  -> ((n + 32768) % 65536) - 32768
      [] k = "Uint8"  -> n % 256
      [] k = "Uint16" -> n % 65536
      [] OTHER        -> n

\* A float, in halves, truncated toward zero
Trunc(h) == IF h >= 0 THEN h \div 2 ELSE -((-h) \div 2)

\* reflect.Value.Convert(t)
Convert(v, k) ==
    CASE k = "Interface" ->
            IF v.k = "Interface" THEN v ELSE [v EXCEPT !.k = "Interface", !.dyn = v.k]
      [] k \in IntKinds \cup UintKinds /\ v.k \in IntKinds \cup UintKinds ->
            Value(k, "", FALSE, Wrap(k, v.n), 0, "")
      [] k \in IntKinds \cup UintKinds /\ v.k \in FloatKinds ->
            Value(k, "", FALSE, Wrap(k, Trunc(v.n)), 0, "")
      [] k \in FloatKinds /\ v.k \in IntKinds \cup UintKinds ->
            Value(k, "", FALSE, 2 * v.n, 0, "")
      [] OTHER -> [v EXCEPT !.k = k]

\* base.ValueType(v): nil for an invalid value and for None
ValueType(v) == IF v = Nil \/ v = None THEN "" ELSE v.k

\* base.KindToCategory
KindToCategory(k) ==
    CASE k \in IntKinds     -> "Int"
      [] k \in UintKinds    -> "Uint"
      [] k \in FloatKinds   -> "Float64"
      [] k \in ComplexKinds -> "Complex128"
      [] OTHER              -> k

\* EvalType(typ): the kind of the type a macro is instantiated with
EvalType(typ) ==
    CASE typ = "bool" -> "Bool"          [] typ = "string" -> "String"
      [] typ = "int" -> "Int"            [] typ = "int8" -> "Int8"
      [] typ = "int16" -> "Int16"        [] typ = "int32" -> "Int32"
      [] typ = "int64" -> "Int64"        [] typ = "uint" -> "Uint"
      [] typ = "uint8" -> "Uint8"        [] typ = "uint16" -> "Uint16"
      [] typ = "uint32" -> "Uint32"      [] typ = "uint64" -> "Uint64"
      [] typ = "uintptr" -> "Uintptr"    [] typ = "float32" -> "Float32"
      [] typ = "float64" -> "Float64"    [] typ = "complex64" -> "Complex64"
      [] typ = "complex128" -> "Complex128"
      [] typ = "struct{}" -> "Struct"    [] typ = "interface{}" -> "Interface"
      [] OTHER -> ""

\* The code a macro expands to: what the statement extracts and how it stores
Expansion(decl, bind) == [err |-> "", decl |-> decl, bind |-> bind]
MacroPanic(msg)       == [err |-> msg, decl |-> "", bind |-> ""]

fsetplace_const(typ) ==
    LET t == EvalType(typ) IN
    IF typ = "nil" THEN Expansion("v", "Set")
    ELSE CASE t = "Bool"          -> Expansion("v.Bool()", "SetBool")
           [] t \in IntKinds      -> Expansion("v.Int()", "SetInt")
           [] t \in UintKinds     -> Expansion("v.Uint()", "SetUint")
           [] t \in FloatKinds    -> Expansion("v.Float()", "SetFloat")
           [] t \in ComplexKinds  -> Expansion("v.Complex()", "SetComplex")
           [] t = "String"        -> Expansion("v.String()", "SetString")
           [] OTHER -> MacroPanic("fsetplace_const unimplemented for type")

fsetplace_expr(typ) ==
    LET t == EvalType(typ) IN
    IF typ = "nil" THEN Expansion("funAsX1(fun)", "Set")
    ELSE CASE t = "Bool"          -> Expansion("fun", "SetBool")
           [] t \in IntKinds      -> Expansion("fun", "SetInt")
           [] t \in UintKinds     -> Expansion("fun", "SetUint")
           [] t \in FloatKinds    -> Expansion("fun", "SetFloat")
           [] t \in ComplexKinds  -> Expansion("fun", "SetComplex")
           [] t = "String"        -> Expansion("fun", "SetString")
           [] OTHER -> MacroPanic("fsetplace_expr unimplemented for type")

\* Mutant of setplaces_const: no default case, the macro is given the place's type
setplaces_const_NoDefault(k) ==
    CASE KindToCategory(k) = "Bool"       -> "bool"
      [] KindToCategory(k) = "Int"        -> "int"
      [] KindToCategory(k) = "Uint"       -> "uint"
      [] KindToCategory(k) = "Float64"    -> "float64"
      [] KindToCategory(k) = "Complex128" -> "complex128"
      [] KindToCategory(k) = "String"     -> "string"
      [] k = "Struct"                     -> "struct{}"
      [] OTHER                            -> "interface{}"

\* setplaces_const: the type setplace_const is instantiated with for a place of kind k
setplaces_const(k) ==
    CASE KindToCategory(k) = "Bool"       -> "bool"
      [] KindToCategory(k) = "Int"        -> "int"
      [] KindToCategory(k) = "Uint"       -> "uint"
      [] KindToCategory(k) = "Float64"    -> "float64"
      [] KindToCategory(k) = "Complex128" -> "complex128"
      [] KindToCategory(k) = "String"     -> "string"
      [] OTHER                            -> "nil"

\* setplaces_expr: the type setplace_expr is instantiated with for a place of kind k
setplaces_expr(k) ==
    CASE k = "Bool" -> "bool"             [] k = "Int" -> "int"
      [] k = "Int8" -> "int8"             [] k = "Int16" -> "int16"
      [] k = "Int32" -> "int32"           [] k = "Int64" -> "int64"
      [] k = "Uint" -> "uint"             [] k = "Uint8" -> "uint8"
      [] k = "Uint16" -> "uint16"         [] k = "Uint32" -> "uint32"
      [] k = "Uint64" -> "uint64"         [] k = "Uintptr" -> "uintptr"
      [] k = "Float32" -> "float32"       [] k = "Float64" -> "float64"
      [] k = "Complex64" -> "complex64"   [] k = "Complex128" -> "complex128"
      [] k = "String" -> "string"
      [] OTHER -> "nil"

(***************************************************************************)
(* fast: places, statements and their compilation                          *)
(***************************************************************************)

\* A compiled expression: func(*Env) T with T of kind k ("Value" for r.Value).
\* Called, it returns ret, plus the environment's counter when it has the side
\* effect of reading and incrementing that counter.
Fn(id, k, ret, eff) == [id |-> id, k |-> k, ret |-> ret, eff |-> eff]
NoFn == Fn("", "", Nil, FALSE)

\* Place{Fun, MapKey, Type}: MapKey holds zero or one function
Place(fun, mapkey, t) == [Fun |-> fun, MapKey |-> mapkey, Type |-> t]

\* A Stmt closure: which closure body it is and the variables in its scope (arg is
\* the constant placeSetConst was given, Nil for placeSetExpr)
Stmt(path, typ, bind, lhs, mapkey, rhs, arg, v, val, t) ==
    [path |-> path, typ |-> typ, bind |-> bind, lhs |-> lhs, mapkey |-> mapkey,
     rhs |-> rhs, arg |-> arg, v |-> v, val |-> val, t |-> t]
\* the nil Stmt that ends a code buffer
Terminal == Stmt("nil", "", "", NoFn, NoFn, NoFn, Nil, Nil, Nil, "")

\* val := v.Bool() and the like, run once when the statement is compiled
Extract(decl, v) ==
    CASE decl = "v" -> [err |-> "", val |-> v]
      [] decl = "v.Bool()" ->
            IF v.k = "Bool" THEN [err |-> "", val |-> Value("Bool", "", v.b, 0, 0, "")]
            ELSE [err |-> "reflect: call of Value.Bool on non-bool Value", val |-> Nil]
      [] decl = "v.Int()" ->
            IF v.k \in IntKinds THEN [err |-> "", val |-> Value("Int64", "", FALSE, v.n, 0, "")]
            ELSE [err |-> "reflect: call of Value.Int on non-int Value", val |-> Nil]
      [] decl = "v.Uint()" ->
            IF v.k \in UintKinds THEN [err |-> "", val |-> Value("Uint64", "", FALSE, v.n, 0, "")]
            ELSE [err |-> "reflect: call of Value.Uint on non-uint Value", val |-> Nil]
      [] decl = "v.Float()" ->
            IF v.k \in FloatKinds THEN [err |-> "", val |-> Value("Float64", "", FALSE, v.n, 0, "")]
            ELSE [err |-> "reflect: call of Value.Float on non-float Value", val |-> Nil]
      [] decl = "v.Complex()" ->
            IF v.k \in ComplexKinds
            THEN [err |-> "", val |-> Value("Complex128", "", FALSE, v.n, v.im, "")]
            ELSE [err |-> "reflect: call of Value.Complex on non-complex Value", val |-> Nil]
      [] decl = "v.String()" ->
            [err |-> "", val |-> Value("String", "", FALSE, 0, 0,
                                      IF v.k = "String" THEN v.s ELSE "<Value>")]
      [] OTHER -> [err |-> "unknown declaration", val |-> Nil]

\* Mutant of ConstValue: the test for a nil constant is inverted
ConstValue_Inverted(val, t) ==
    IF ValueType(val) # "" THEN Zero(t) ELSE Convert(val, t)

\* The value placeSetConst captures: the constant converted to the place's type
ConstValue(val, t) ==
    IF ValueType(val) = "" THEN Zero(t) ELSE Convert(val, t)

\* The outcome of a compile call: the statements it appends, or the panic
Compiled(st)      == [err |-> "", stmts |-> <<st>>]
CompilePanic(msg) == [err |-> msg, stmts |-> <<>>]

placeSetConst(place, val) ==
    LET t   == place.Type
        v   == ConstValue(val, t)
        lhs == place.Fun
    IN  IF place.MapKey # <<>>
        THEN Compiled(Stmt("map_const", "", "SetMapIndex", lhs, place.MapKey[1], NoFn, val, v, v, t))
        ELSE LET typ == setplaces_const(t)
                 exp == fsetplace_const(typ)
                 x   == Extract(exp.decl, v)
             IN  IF exp.err # "" THEN CompilePanic(exp.err)
                 ELSE IF x.err # "" THEN CompilePanic(x.err)
                 ELSE Compiled(Stmt("const", typ, exp.bind, lhs, NoFn, NoFn, val, v, x.val, t))

\* r.Zero(t).Interface(): the zero value as an interface{}, nil for a nil interface
ZeroInterface(t) == IF t = "Interface" THEN Nil ELSE Zero(t)

placeSetZero(place) == placeSetConst(place, ZeroInterface(place.Type))

\* funAsX1(fun): fun as a func(*Env) r.Value
funAsX1(fun) == [fun EXCEPT !.k = "Value"]

placeSetExpr(place, fun) ==
    LET t   == place.Type
        lhs == place.Fun
    IN  IF place.MapKey # <<>>
        THEN Compiled(Stmt("map_expr", "", "SetMapIndex", lhs, place.MapKey[1],
                           funAsX1(fun), Nil, Nil, Nil, t))
        ELSE LET typ == setplaces_expr(t)
                 exp == fsetplace_expr(typ)
             IN  IF exp.err # "" THEN CompilePanic(exp.err)
                 ELSE IF typ = "nil"
                 THEN Compiled(Stmt("expr", typ, exp.bind, lhs, NoFn, funAsX1(fun),
                                    Nil, Zero(t), Nil, t))
                 ELSE IF fun.k # EvalType(typ)
                 THEN CompilePanic("interface conversion: fun is not func(*Env) T")
                 ELSE Compiled(Stmt("expr", typ, exp.bind, lhs, NoFn, fun, Nil, Nil, Nil, t))

(***************************************************************************)
(* fast: executing a statement against an Environment                      *)
(***************************************************************************)

NumericKinds == IntKinds \cup UintKinds \cup FloatKinds

\* Calling a compiled expression: run is the execution so far (the counter and the
\* calls made, in order); the call is recorded, and a function with the side effect
\* reads the counter into its result and increments it
Eval(fn, run) ==
    [val   |-> IF fn.eff /\ fn.ret.k \in NumericKinds
               THEN [fn.ret EXCEPT !.n = @ + run.ctr] ELSE fn.ret,
     ctr   |-> IF fn.eff THEN run.ctr + 1 ELSE run.ctr,
     trace |-> Append(run.trace, fn.id)]

\* reflect.Value.SetBool, SetInt, ... and Set on a location of kind lk
Setter(bind, lk, x) ==
    CASE bind = "SetBool" /\ lk = "Bool" ->
            [err |-> "", val |-> Value(lk, "", x.b, 0, 0, "")]
      [] bind = "SetInt" /\ lk \in IntKinds ->
            [err |-> "", val |-> Value(lk, "", FALSE, Wrap(lk, x.n), 0, "")]
      [] bind = "SetUint" /\ lk \in UintKinds ->
            [err |-> "", val |-> Value(lk, "", FALSE, Wrap(lk, x.n), 0, "")]
      [] bind = "SetFloat" /\ lk \in FloatKinds ->
            [err |-> "", val |-> Value(lk, "", FALSE, x.n, 0, "")]
      [] bind = "SetComplex" /\ lk \in ComplexKinds ->
            [err |-> "", val |-> Value(lk, "", FALSE, x.n, x.im, "")]
      [] bind = "SetString" /\ lk = "String" ->
            [err |-> "", val |-> Value(lk, "", FALSE, 0, 0, x.s)]
      [] bind \in {"Set", "SetMapIndex"} /\ x # Nil /\ x.k = lk ->
            [err |-> "", val |-> x]
      [] bind \in {"Set", "SetMapIndex"} /\ x # Nil /\ x # None /\ lk = "Interface" ->
            [err |-> "", val |-> Convert(x, lk)]
      [] OTHER -> [err |-> "reflect: value of wrong kind for " \o bind, val |-> Nil]

\* m with m[key] = v
MapWith(m, key, v) == [x \in DOMAIN m \cup {key} |-> IF x = key THEN v ELSE m[x]]

\* A statement that panicked: nothing is stored and nothing is returned
ExecPanic(e, run, msg) ==
    [err |-> msg, env |-> [e EXCEPT !.ctr = run.ctr],
     next |-> [stmt |-> Terminal, env |-> ""], trace |-> run.trace, key |-> 0, stored |-> Nil]

\* Mutant of Advance: the next statement is fetched before IP is incremented
Advance_Stale(e, run, key, stored) ==
    [err |-> "", env |-> [e EXCEPT !.IP = @ + 1, !.ctr = run.ctr],
     next |-> [stmt |-> e.Code[e.IP + 1], env |-> "env"],
     trace |-> Append(run.trace, "store"), key |-> key, stored |-> stored]

\* env.IP++; return env.Code[env.IP], env   (e already holds the store; Code is
\* indexed from 1 here, so Go's Code[IP] is Code[IP + 1])
Advance(e, run, key, stored) ==
    [err |-> "", env |-> [e EXCEPT !.IP = @ + 1, !.ctr = run.ctr],
     next |-> [stmt |-> e.Code[(e.IP + 1) + 1], env |-> "env"],
     trace |-> Append(run.trace, "store"), key |-> key, stored |-> stored]

\* the closure of placeSetConst for a map-indexed place
ExecMapConst(s, e) ==
    LET run0 == [ctr |-> e.ctr, trace |-> <<>>]
        obj  == Eval(s.lhs, run0)
        key  == Eval(s.mapkey, obj)
        x    == Setter("SetMapIndex", s.t, s.v)
    IN  IF x.err # "" THEN ExecPanic(e, key, x.err)
        ELSE Advance([e EXCEPT !.m = MapWith(e.m, key.val.n, x.val)], key, key.val.n, x.val)

\* Mutant of ExecMapExpr: the key is evaluated before the container
ExecMapExpr_KeyFirst(s, e) ==
    LET run0 == [ctr |-> e.ctr, trace |-> <<>>]
        key  == Eval(s.mapkey, run0)
        obj  == Eval(s.lhs, key)
        val  == Eval(s.rhs, obj)
        cv   == IF val.val.k # s.t THEN Convert(val.val, s.t) ELSE val.val
        x    == Setter("SetMapIndex", s.t, cv)
    IN  IF val.val = Nil THEN ExecPanic(e, val, "reflect: call of Value.Type on zero Value")
        ELSE IF x.err # "" THEN ExecPanic(e, val, x.err)
        ELSE Advance([e EXCEPT !.m = MapWith(e.m, key.val.n, x.val)], val, key.val.n, x.val)

\* the closure of placeSetExpr for a map-indexed place
ExecMapExpr(s, e) ==
    LET run0 == [ctr |-> e.ctr, trace |-> <<>>]
        obj  == Eval(s.lhs, run0)
        key  == Eval(s.mapkey, obj)
        val  == Eval(s.rhs, key)
        cv   == IF val.val.k # s.t THEN Convert(val.val, s.t) ELSE val.val
        x    == Setter("SetMapIndex", s.t, cv)
    IN  IF val.val = Nil THEN ExecPanic(e, val, "reflect: call of Value.Type on zero Value")
        ELSE IF x.err # "" THEN ExecPanic(e, val, x.err)
        ELSE Advance([e EXCEPT !.m = MapWith(e.m, key.val.n, x.val)], val, key.val.n, x.val)

\* the closure fsetplace_const expands to: lhs(env).SetT(val)
ExecConst(s, e) ==
    LET run0 == [ctr |-> e.ctr, trace |-> <<>>]
        loc  == Eval(s.lhs, run0)
        x    == Setter(s.bind, e.loc.k, s.val)
    IN  IF x.err # "" THEN ExecPanic(e, loc, x.err)
        ELSE Advance([e EXCEPT !.loc = x.val], loc, 0, x.val)

\* the closures fsetplace_expr expands to
ExecExpr(s, e) ==
    LET run0  == [ctr |-> e.ctr, trace |-> <<>>]
        place == Eval(s.lhs, run0)
        value == Eval(s.rhs, place)
        cv    == IF s.typ # "nil" THEN value.val
                 ELSE IF value.val = Nil \/ value.val = None THEN s.v
                 ELSE IF value.val.k # s.t THEN Convert(value.val, s.t)
                 ELSE value.val
        x     == Setter(s.bind, e.loc.k, cv)
    IN  IF x.err # "" THEN ExecPanic(e, value, x.err)
        ELSE Advance([e EXCEPT !.loc = x.val], value, 0, x.val)

Exec(s, e) ==
    CASE s.path = "map_const" -> ExecMapConst(s, e)
      [] s.path = "map_expr"  -> ExecMapExpr(s, e)
      [] s.path = "const"     -> ExecConst(s, e)
      [] OTHER                -> ExecExpr(s, e)

(***************************************************************************)
(* fast: the arguments the model compiles, and the actions                 *)
(***************************************************************************)

\* The kinds of the places the model assigns to: every category, and the narrow
\* widths of the integer families
PlaceKinds == {"Bool", "Int8", "Int16", "Int", "Uint8", "Uint16", "Float32", "Float64",
               "Complex64", "Complex128", "String", "Interface", "Struct"}
MapElemKinds == {"Int8", "Interface"}

Places ==
    {Place(Fn("lhs", "Value", Nil, FALSE), <<>>, k) : k \in PlaceKinds}
    \cup {Place(Fn("lhs", "Value", Nil, le), <<Fn("key", "Int", Value("Int", "", FALSE, 0, 0, ""), ke)>>, k) :
            k \in MapElemKinds, le \in BOOLEAN, ke \in BOOLEAN}

\* The constants: nil, and values of several kinds (floats and complex in halves)
Consts ==
    {Nil,
     Value("Bool", "", TRUE, 0, 0, ""),
     Value("Int", "", FALSE, 1, 0, ""),
     Value("Int", "", FALSE, 300, 0, ""),
     Value("Int", "", FALSE, -3, 0, ""),
     Value("Int8", "", FALSE, 7, 0, ""),
     Value("Float64", "", FALSE, 5, 0, ""),
     Value("Complex128", "", FALSE, 2, 3, ""),
     Value("String", "", FALSE, 0, 0, "go"),
     Value("Struct", "", FALSE, 0, 0, "")}

\* reflect.Value.Convert(t) is defined (it panics otherwise)
Convertible(c, k) ==
    \/ c = Nil
    \/ k = "Interface"
    \/ c.k \in NumericKinds /\ k \in NumericKinds
    \/ c.k \in ComplexKinds /\ k \in ComplexKinds
    \/ c.k = k

\* A value of kind k, as an expression of that static type returns it
Sample(k) ==
    CASE k = "Bool"           -> Value(k, "", TRUE, 0, 0, "")
      [] k \in NumericKinds   -> Value(k, "", FALSE, 7, 0, "")
      [] k \in ComplexKinds   -> Value(k, "", FALSE, 2, 3, "")
      [] k = "String"         -> Value(k, "", FALSE, 0, 0, "go")
      [] OTHER                -> Zero(k)

\* The expressions assigned to a place: of the place's own static type when the
\* place has a specialised path; returning r.Value otherwise
Funs(place) ==
    IF place.MapKey = <<>> /\ place.Type \notin OtherKinds
    THEN {Fn("rhs", place.Type, Sample(place.Type), eff) : eff \in BOOLEAN}
    ELSE IF place.MapKey = <<>>
    THEN {Fn("rhs", "Value", r, FALSE) :
            r \in {Nil, None, Zero(place.Type)}
                  \cup (IF place.Type = "Interface"
                        THEN {Sample("Int"), Convert(Sample("String"), "Interface")}
                        ELSE {})}
    ELSE {Fn("rhs", "Value", r, eff) :
            r \in {Value("Int", "", FALSE, 300, 0, ""), Sample(place.Type)},
            eff \in BOOLEAN}

PlaceArgs ==
    {[place |-> p, val |-> c, fun |-> f] :
        p \in Places, c \in Consts, f \in UNION {Funs(q) : q \in Places}}

\* A fresh Environment for the compiled code: IP 0, the place's variable zero, its
\* map empty, the code buffer ended by the nil statement
NoEnv == [live |-> FALSE, IP |-> 0, Code |-> <<>>, loc |-> Nil, m |-> <<>>, ctr |-> 0]
NewEnv(c, t) ==
    [live |-> TRUE, IP |-> 0, Code |-> Append(c, Terminal), loc |-> Zero(t), m |-> <<>>, ctr |-> 0]

NoExec == [stmt |-> Terminal, ip0 |-> 0, ctr0 |-> 0, err |-> "none", trace |-> <<>>,
           key |-> 0, stored |-> Nil]
NoNext == [stmt |-> Terminal, env |-> ""]

Compile(call, r) ==
    /\ ~env.live
    /\ Len(comp) < MaxStmts
    /\ comp' = comp \o r.stmts
    /\ compOut' = [call |-> call, err |-> r.err, before |-> Len(comp)]
    /\ UNCHANGED <<pargs, env, next, execOut, jitVars, typeVars>>

CompileConst == Compile("placeSetConst", placeSetConst(pargs.place, pargs.val))
CompileExpr  == Compile("placeSetExpr", placeSetExpr(pargs.place, pargs.fun))
CompileZero  == Compile("placeSetZero", placeSetZero(pargs.place))

\* The driving loop starts the compiled code on a fresh Environment
Run ==
    /\ Len(comp) > 0
    /\ ~env.live \/ next.stmt = Terminal
    /\ env' = NewEnv(comp, pargs.place.Type)
    /\ next' = [stmt |-> comp[1], env |-> "env"]
    /\ execOut' = NoExec
    /\ UNCHANGED <<pargs, comp, compOut, jitVars, typeVars>>

\* The driving loop invokes the statement it was handed
ExecStmt ==
    /\ env.live
    /\ next.stmt # Terminal
    /\ LET r == Exec(next.stmt, env) IN
       /\ env' = r.env
       /\ next' = r.next
       /\ execOut' = [stmt |-> next.stmt, ip0 |-> env.IP, ctr0 |-> env.ctr, err |-> r.err,
                      trace |-> r.trace, key |-> r.key, stored |-> r.stored]
    /\ UNCHANGED <<pargs, comp, compOut, jitVars, typeVars>>

PlaceInit ==
    /\ pargs \in {a \in PlaceArgs : /\ Convertible(a.val, a.place.Type)
                                   /\ a.fun \in Funs(a.place)}
    /\ comp = <<>>
    /\ compOut = [call |-> "", err |-> "none", before |-> 0]
    /\ env = NoEnv
    /\ next = NoNext
    /\ execOut = NoExec

InitPlace == PlaceInit /\ JitIdle /\ TypeIdle

NextPlace == CompileConst \/ CompileExpr \/ CompileZero \/ Run \/ ExecStmt

SpecPlace == InitPlace /\ [][NextPlace]_vars

(***************************************************************************)
(* Claims about assignment statements                                      *)
(***************************************************************************)

\* A statement was executed and returned
Executed(path) == execOut.stmt.path = path /\ execOut.err = ""

Ticks(fn) == IF fn.eff THEN 1 ELSE 0
\* What fn returns when `before` counter increments precede it in the execution
Returns(fn, before) ==
    IF fn.eff /\ fn.ret.k \in NumericKinds
    THEN [fn.ret EXCEPT !.n = @ + execOut.ctr0 + before] ELSE fn.ret
\* v as a location of kind t holds it
Held(v, t) == IF v.k # t THEN Convert(v, t) ELSE v

\* C1: a statement compiled by placeSetConst or placeSetExpr for a map-indexed
\* place evaluates the container, then the key, then (placeSetExpr) the value, and
\* only then stores; with side effects on a shared counter, the key and the value
\* are those of that order.
C1_MapOrder ==
    LET s == execOut.stmt IN
    /\ Executed("map_expr") =>
          /\ execOut.trace = <<"lhs", "key", "rhs", "store">>
          /\ execOut.key = Returns(s.mapkey, Ticks(s.lhs)).n
          /\ execOut.stored = Held(Returns(s.rhs, Ticks(s.lhs) + Ticks(s.mapkey)), s.t)
          /\ env.m[execOut.key] = execOut.stored
          /\ env.ctr = execOut.ctr0 + Ticks(s.lhs) + Ticks(s.mapkey) + Ticks(s.rhs)
    /\ Executed("map_const") =>
          /\ execOut.trace = <<"lhs", "key", "store">>
          /\ execOut.key = Returns(s.mapkey, Ticks(s.lhs)).n
          /\ env.m[execOut.key] = execOut.stored
          /\ env.ctr = execOut.ctr0 + Ticks(s.lhs) + Ticks(s.mapkey)

\* C1 witness: m[k] = f() ran with side effects in all three expressions, after
\* an earlier statement had moved the counter
C1_Witness ==
    /\ Executed("map_expr")
    /\ execOut.stmt.lhs.eff /\ execOut.stmt.mapkey.eff /\ execOut.stmt.rhs.eff
    /\ execOut.ctr0 > 0

\* C2: every statement of placeSetConst and placeSetExpr, executed with IP = n,
\* performs its store, leaves IP = n+1 and returns Code[n+1] with the Environment
\* it was given.
C2_Advance ==
    execOut.err # "none" =>
        /\ execOut.err = ""
        /\ env.IP = execOut.ip0 + 1
        /\ next.stmt = env.Code[(execOut.ip0 + 1) + 1]
        /\ next.env = "env"
        /\ Len(SelectSeq(execOut.trace, LAMBDA x : x = "store")) = 1
        /\ execOut.trace[Len(execOut.trace)] = "store"
        /\ IF execOut.stmt.path \in {"map_const", "map_expr"}
           THEN env.m[execOut.key] = execOut.stored
           ELSE env.loc = execOut.stored

\* C2 witness: the second statement of a buffer, an expression assignment, ran
C2_Witness ==
    /\ Executed("expr") /\ execOut.ip0 = 1 /\ env.IP = 2
    /\ next.stmt = Terminal

\* c converted to a location of kind t, the zero value for a nil constant
Expected(c, t) == IF c = Nil THEN Zero(t) ELSE Convert(c, t)

\* C8: for every type category and constant c, placeSetConst(place, c) compiles to a
\* statement that leaves the location holding c converted to the location's type
\* (the zero value when c is nil); the conversion is made when the statement is
\* compiled, and every execution stores that same value.
C8_ConstStored ==
    /\ compOut.call \in {"placeSetConst", "placeSetZero"} =>
          compOut.err = "" /\ Len(comp) = compOut.before + 1
    /\ \A i \in 1..Len(comp) :
          comp[i].path = "const" => comp[i].v = Expected(comp[i].arg, comp[i].t)
    /\ Executed("const") =>
          /\ env.loc = Expected(execOut.stmt.arg, execOut.stmt.t)
          /\ env.loc.k = pargs.place.Type

\* C8 witness: the constant 300 was stored in an int8 location that an earlier
\* statement had already written: the location holds 44
C8_Witness ==
    /\ Executed("const") /\ execOut.ip0 = 1
    /\ execOut.stmt.arg = Value("Int", "", FALSE, 300, 0, "")
    /\ env.loc = Value("Int8", "", FALSE, 44, 0, "")

\* The last compile call was for a plain place whose kind has no specialised path
Unspecialised ==
    /\ compOut.call \in {"placeSetConst", "placeSetExpr"}
    /\ pargs.place.MapKey = <<>>
    /\ KindToCategory(pargs.place.Type)
          \notin {"Bool", "Int", "Uint", "Float64", "Complex128", "String"}

\* C10 as stated: compiling an assignment to a plain place whose type category has
\* no specialised path is a fatal error, and no statement is appended.
C10_UnspecialisedFatal ==
    Unspecialised => compOut.err # "" /\ Len(comp) = compOut.before

\* C10 as amended: compiling an assignment to a plain place whose type category
\* has no specialised path is not an error: exactly one statement is appended, the
\* one of the generic fallback path (the macro instantiated with nil), which stores
\* through reflect's Set and never through a specialised setter.
C10_UnspecialisedFallback ==
    /\ Unspecialised =>
          /\ compOut.err = ""
          /\ Len(comp) = compOut.before + 1
          /\ comp[Len(comp)].typ = "nil"
          /\ comp[Len(comp)].bind = "Set"
    /\ (execOut.err # "none" /\ pargs.place.MapKey = <<>>
        /\ pargs.place.Type \in OtherKinds)
          => execOut.err = "" /\ execOut.stmt.bind = "Set" /\ env.loc.k = pargs.place.Type

\* C10 witness: a constant assignment to an interface{} variable was compiled
C10_Witness ==
    /\ Unspecialised /\ compOut.call = "placeSetConst" /\ compOut.err = ""
    /\ pargs.place.Type = "Interface" /\ pargs.val # Nil

(***************************************************************************)
(* Claims about function types                                             *)
(***************************************************************************)

\* The last call was a constructor that returned a type
Built == typeOut.call \in Constructors /\ typeOut.r.err = ""

\* C5: the type built by MethodOf(recv, in, out, variadic) has NumIn() = len(in)
\* and NumOut() = len(out); its runtime function type has len(in)+1 parameters
\* with the receiver's runtime type first when recv is non-nil, and len(in)
\* parameters when recv is nil (FuncOf).
C5_ParamCounts ==
    Built =>
        LET t == typeOut.r.t IN
        /\ NumIn(t) = ReturnN(Len(targs.in))
        /\ NumOut(t) = ReturnN(Len(targs.out))
        /\ Len(t.rtype.out) = Len(targs.out)
        /\ IF typeOut.recv # NilType
           THEN /\ Len(t.rtype.in) = Len(targs.in) + 1
                /\ t.rtype.in[1] = typeOut.recv.rtype
           ELSE Len(t.rtype.in) = Len(targs.in)

\* C5 witness: MethodOf returned a method type with a receiver and parameters
C5_Witness ==
    /\ Built /\ typeOut.call = "MethodOf"
    /\ typeOut.recv # NilType /\ Len(targs.in) > 0

\* i-th (from 0) runtime parameter that In(i) must pair with on type t
RuntimeIndex(t, i) == IF underlying(t).recv # <<>> THEN i + 2 ELSE i + 1

\* C6: on a function-shaped type, In(i) for i in [0, NumIn()) pairs the i-th static
\* parameter with the runtime parameter at i+1 when the type has a receiver and at
\* i when it has none; on a type built by MethodOf(recv, in, out, v), In(i) is
\* in[i], never the receiver; Recv() pairs the static receiver with runtime
\* parameter 0.
C6_InSkipsReceiver ==
    /\ (typeOut.call = "In" /\ Kind(typeOut.on) = "Func"
        /\ typeOut.i < Len(underlying(typeOut.on).params))
          => /\ typeOut.r.err = ""
             /\ typeOut.r.t.gtype = underlying(typeOut.on).params[typeOut.i + 1]
             /\ typeOut.r.t.rtype = typeOut.on.rtype.in[RuntimeIndex(typeOut.on, typeOut.i)]
    /\ (typeOut.call = "Recv" /\ Kind(typeOut.on) = "Func"
        /\ underlying(typeOut.on).recv # <<>>)
          => /\ typeOut.r.err = ""
             /\ typeOut.r.t.gtype = underlying(typeOut.on).recv[1]
             /\ typeOut.r.t.rtype = typeOut.on.rtype.in[1]
    /\ Built =>
          LET t == typeOut.r.t IN
          /\ \A i \in 1..Len(targs.in) :
                /\ In(t, i - 1).err = ""
                /\ In(t, i - 1).t.gtype = targs.in[i].gtype
                /\ In(t, i - 1).t.rtype = targs.in[i].rtype
          /\ typeOut.recv # NilType =>
                /\ Recv(t).err = ""
                /\ Recv(t).t.gtype = typeOut.recv.gtype
                /\ Recv(t).t.rtype = typeOut.recv.rtype

\* C6 witness: In(1) returned the second parameter of a method type
C6_Witness ==
    /\ typeOut.call = "In" /\ typeOut.i = 1 /\ typeOut.r.err = ""
    /\ underlying(typeOut.on).recv # <<>>

\* The first non-nil type of a list, if any
FirstNonNil(ts) ==
    LET idx == {i \in 1..Len(ts) : ts[i] # NilType} IN
    IF idx = {} THEN NilType
    ELSE ts[CHOOSE i \in idx : \A j \in idx : i <= j]

\* The universe of recv if given, else of the first type of `first`, else of the
\* first type of `second`, else the default
Preferred(recv, first, second) ==
    CASE recv # NilType   -> recv.universe
      [] first # NilType  -> first.universe
      [] second # NilType -> second.universe
      [] OTHER            -> DefaultUniverse

Head0(ts) == IF Len(ts) = 0 THEN NilType ELSE ts[1]

\* C7 as stated: the package-level MethodOf/FuncOf builds in the receiver's
\* universe if a receiver is supplied, else in that of the first non-null input
\* type, else in that of the first non-null output type, else in the default one.
C7_FirstNonNull ==
    typeOut.call \in {"MethodOf", "FuncOf"} =>
        typeOut.universe =
            Preferred(typeOut.recv, FirstNonNil(targs.in), FirstNonNil(targs.out))

\* C7 as amended: the package-level MethodOf/FuncOf builds in the receiver's
\* universe if a receiver is supplied, else in that of in[0] when the input list is
\* non-empty and in[0] is non-null, else in that of out[0] when the output list is
\* non-empty and out[0] is non-null, else in the default universe; only the first
\* element of each list is looked at.
C7_FirstElement ==
    typeOut.call \in {"MethodOf", "FuncOf"} =>
        /\ typeOut.universe = Preferred(typeOut.recv, Head0(targs.in), Head0(targs.out))
        /\ typeOut.r.err = "" => typeOut.r.t.universe = typeOut.universe

\* C7 witness: no receiver, in = [nil, T], out[0] non-nil: out[0]'s universe is chosen
C7_Witness ==
    /\ typeOut.call = "FuncOf"
    /\ Len(targs.in) = 2 /\ targs.in[1] = NilType /\ targs.in[2] # NilType
    /\ Len(targs.out) > 0 /\ targs.out[1] # NilType
    /\ typeOut.universe = targs.out[1].universe

\* The index an accessor was given is one the type has
InRange ==
    /\ typeOut.call = "In" => typeOut.i < Len(underlying(typeOut.on).params)
    /\ typeOut.call = "Out" => typeOut.i < Len(underlying(typeOut.on).results)

\* C9: each of In, Out, NumIn, NumOut, Recv, IsVariadic, IsMethod raises exactly
\* when the type's kind is not Func: on a non-function type it raises, and on a type
\* of kind Func (a named type over a signature included), with an index in range,
\* it returns without raising.
C9_RaisesIffNotFunc ==
    typeOut.call \in Accessors =>
        /\ Kind(typeOut.on) # "Func" => typeOut.r.err # ""
        /\ (Kind(typeOut.on) = "Func" /\ InRange) => typeOut.r.err = ""

(***************************************************************************)
(* Claims about the Code buffer                                            *)
(***************************************************************************)

\* code' is code with exactly n tokens appended, the first being an op of class cls
Appends(n, cls) ==
    /\ Len(code') = Len(code) + n
    /\ SubSeq(code', 1, Len(code)) = code
    /\ code'[Len(code) + 1] = Asm(cls, jitOut'.op)

\* C3: Inst1(NOP, dst) and Inst2(ASSIGN, src, dst) with src and dst encoding to
\* the same operand leave the buffer unchanged; with lowered operands every other
\* Inst1 call appends exactly 2 tokens and every other Inst2 call exactly 3.
C3_Elision ==
    [][ /\ (jitOut'.call = "Inst1" /\ jitOut'.op = NOP
                => code' = code /\ jitOut'.err = "")
        /\ (jitOut'.call = "Inst2" /\ jitOut'.op = ASSIGN /\ jitOut'.same
                => code' = code /\ jitOut'.err = "")
        /\ (jitOut'.call = "Inst1" /\ jitOut'.op # NOP /\ jitOut'.lowered
                => Appends(2, "inst1") /\ jitOut'.err = "")
        /\ (jitOut'.call = "Inst2" /\ jitOut'.lowered
             /\ ~(jitOut'.op = ASSIGN /\ jitOut'.same)
                => Appends(3, "inst2") /\ jitOut'.err = "")
      ]_vars

\* C3 witness: a self-assignment through two different spellings of one operand
\* was elided on a buffer that already holds tokens
C3_Witness ==
    /\ jitOut.call = "Inst2" /\ jitOut.op = ASSIGN /\ jitOut.same
    /\ Len(code) > 0

\* C4: an operand that is neither a raw token nor a soft register makes asmArg
\* raise, and Op1, Op2, Inst2 and a non-NOP Inst1 then leave the buffer as it was.
C4_UnloweredRaises ==
    [][ (/\ \/ jitOut'.call \in {"Op1", "Op2", "Inst2"}
            \/ (jitOut'.call = "Inst1" /\ jitOut'.op # NOP)
         /\ ~jitOut'.lowered)
            => jitOut'.err # "" /\ code' = code
      ]_vars

\* C4 witness: Op2 raised on a buffer that already holds tokens
C4_Witness ==
    /\ jitOut.call = "Op2" /\ ~jitOut.lowered /\ jitOut.err # ""
    /\ Len(code) > 0

\* The tags of the tokens the step added after the old buffer
NewTags == [i \in 1..(Len(code') - Len(code)) |-> code'[Len(code) + i].tag]
\* The old buffer is a prefix of the new one
KeepsPrefix == Len(code') >= Len(code) /\ SubSeq(code', 1, Len(code)) = code

\* C11: the stream is append-only. Every Op1, Op2, Inst1, Inst2 and SoftReg call
\* leaves the tokens already emitted unchanged as a prefix of the buffer, and a call
\* that returns grows it by exactly 3 tokens (Op1: op, src, dst id), 4 (Op2: op, a,
\* b, dst id), 3 (SoftReg: operation, id, kind), 0 or 2 (Inst1), 0 or 3 (Inst2).
C11_AppendOnly ==
    [][ jitOut'.call # "Init" =>
          /\ KeepsPrefix
          /\ jitOut'.err # "" => code' = code
          /\ (jitOut'.err = "" /\ jitOut'.call = "Op1") =>
                /\ Len(code') = Len(code) + 3
                /\ NewTags[1] = "op1" /\ NewTags[2] \in {"imm", "regid"}
                /\ NewTags[3] = "regid"
          /\ (jitOut'.err = "" /\ jitOut'.call = "Op2") =>
                /\ Len(code') = Len(code) + 4
                /\ NewTags[1] = "op2" /\ NewTags[2] \in {"imm", "regid"}
                /\ NewTags[3] \in {"imm", "regid"} /\ NewTags[4] = "regid"
          /\ (jitOut'.err = "" /\ jitOut'.call = "SoftReg") =>
                NewTags = <<"misc", "regid", "kind">>
          /\ (jitOut'.err = "" /\ jitOut'.call = "Inst1") =>
                Len(code') - Len(code) \in {0, 2}
          /\ (jitOut'.err = "" /\ jitOut'.call = "Inst2") =>
                Len(code') - Len(code) \in {0, 3}
      ]_vars

\* C11 witness: a register was allocated and an Op1 then added its three tokens
\* behind the allocation's three
C11_Witness ==
    /\ jitOut.call = "Op1" /\ jitOut.err = ""
    /\ Len(code) = 6
    /\ code[1] = Asm("misc", "ALLOC") /\ code[4].tag = "op1"

=============================================================================
